---- MODULE Spec2Model ----
(***************************************************************************)
(* Model of src/src_rust/lib.rs: the null-aware comparator, the multi-key  *)
(* argsort (numeric and mixed) and the expression filter.                  *)
(*                                                                         *)
(* An f64 is the pair <<n, d>>: the rational n/d when d >= 1, and the      *)
(* specials NaN = <<0,0>>, +inf = <<1,0>>, -inf = <<-1,0>>.  A Rust str is *)
(* the sequence of its bytes; an Option<String> is <<-1>> for None and the  *)
(* bytes after a leading 0 for Some.  Rust indices are 0-based, TLA+       *)
(* sequences 1-based: At(s, i) is s[i].                                    *)
(***************************************************************************)
EXTENDS Integers, Sequences, FiniteSets, TLC

VARIABLES
    cmp_in,     \* arguments of the last per-column comparison
    cmp_out,    \* its Ordering
    scall,      \* arguments of the last argsort call
    sret,       \* what the call returned: Ok(Vec<usize>) or Err
    spath,      \* the branch of the threshold dispatch the call took
    seq_res,    \* result of sort_unstable_by on scall (strategy comparison)
    par_res,    \* result of par_sort_unstable_by on scall (strategy comparison)
    fcall,      \* arguments of the compute_filter_indices call
    fpc,        \* its position: "idle", "par" (workers running) or "done"
    compiled,   \* the compiled expression, once parsed
    storage,    \* the extracted columns, once extracted
    filter_row_count, \* row_count: length of the first column
    chunks,     \* the parallel path's split of 0..row_count into row ranges
    next_row,   \* per chunk, the next row its worker evaluates
    local,      \* per chunk, the matching rows its worker has collected
    last_worker,\* the chunk whose worker made the latest step
    evaluated,  \* the rows on which the expression has been evaluated
    fpath,      \* the side of the filter's threshold dispatch taken
    fret,       \* what the call returned: Ok(Vec<usize>), Err or a panic
    log_segs,   \* the markers the scanned log is made of
    scan_content, \* smcl_content: the text passed to fast_scan_log
    scan_default, \* its rc_default argument
    scan_ret,   \* what fast_scan_log returned
    ord_in,     \* the values or rows, and flags, of a triple of comparisons
    ord_out     \* the comparator's results on the triple

cmpVars == <<cmp_in, cmp_out>>
sortVars == <<scall, sret, spath>>
pathVars == <<seq_res, par_res>>
filterVars == <<fcall, fpc, compiled, storage, filter_row_count, chunks, next_row, local,
                last_worker, evaluated, fpath, fret>>
scanVars == <<log_segs, scan_content, scan_default, scan_ret>>
orderVars == <<ord_in, ord_out>>
vars == <<cmpVars, sortVars, pathVars, filterVars, scanVars, orderVars>>

-----------------------------------------------------------------------------
(* Bounds of the model *)

MaxCols == 2
MaxRows == 3
\* columns * columns * rows of a well-formed call (its flag arrays grow with
\* the columns as well)
MaxWork == 12
\* row ranges the parallel filter splits into
MaxChunks == 2
\* markers in a scanned log
MaxSegs == 3

(* Program constants.  The two parallel thresholds are scaled down (2_500  *)
(* and 5_000 rows in the source) so that both sides of each dispatch are   *)
(* reached with MaxRows rows; only the comparison len < threshold matters. *)
PAR_SORT_THRESHOLD == 3
PAR_FILTER_THRESHOLD == 3
MAX_FILTER_EXPR_LEN == 1000

-----------------------------------------------------------------------------
(* f64 *)

NaN == <<0, 0>>
PosInf == <<1, 0>>
NegInf == <<-1, 0>>
F(n) == <<n, 1>>

is_nan(a) == a = NaN

\* a < b on f64: false when either side is NaN
FLt(a, b) ==
    /\ ~is_nan(a)
    /\ ~is_nan(b)
    /\ IF a[2] = 0 THEN a[1] < 0 /\ b # a
       ELSE IF b[2] = 0 THEN b[1] > 0
       ELSE a[1] * b[2] < b[1] * a[2]

FGt(a, b) == FLt(b, a)

-----------------------------------------------------------------------------
(* std::cmp::Ordering *)

Less == "Less"
Equal == "Equal"
Greater == "Greater"
Ordering == {Less, Equal, Greater}

reverse(o) == IF o = Less THEN Greater ELSE IF o = Greater THEN Less ELSE Equal

-----------------------------------------------------------------------------
(* Option<String> and str::cmp *)

None == <<-1>>
Some(s) == <<0>> \o s
is_some(a) == a[1] = 0
unwrap(a) == Tail(a)

At(s, i) == s[i + 1]

RECURSIVE str_cmp_from(_, _, _)
str_cmp_from(a, b, k) ==
    IF k > Len(a) /\ k > Len(b) THEN Equal
    ELSE IF k > Len(a) THEN Less
    ELSE IF k > Len(b) THEN Greater
    ELSE IF a[k] < b[k] THEN Less
    ELSE IF a[k] > b[k] THEN Greater
    ELSE str_cmp_from(a, b, k + 1)

\* a.cmp(b) for &str: byte-lexicographic
str_cmp(a, b) == str_cmp_from(a, b, 1)

-----------------------------------------------------------------------------
(* The per-column comparators *)

\* the comparator with the null placement following the direction
cmp_with_nulls_dirnull(a, b, descending, nulls_last) ==
    LET asc ==
            IF is_nan(a) /\ is_nan(b) THEN Equal
            ELSE IF is_nan(a) THEN (IF nulls_last THEN Greater ELSE Less)
            ELSE IF is_nan(b) THEN (IF nulls_last THEN Less ELSE Greater)
            ELSE IF FLt(a, b) THEN Less
            ELSE IF FGt(a, b) THEN Greater
            ELSE Equal
    IN  IF descending THEN reverse(asc) ELSE asc

\* the comparator placing a single null by nulls_last alone, whichever side it is on
cmp_with_nulls_onesided(a, b, descending, nulls_last) ==
    LET a_null == is_nan(a)
        b_null == is_nan(b)
    IN  IF a_null \/ b_null
        THEN IF a_null /\ b_null THEN Equal
             ELSE IF nulls_last THEN Greater ELSE Less
        ELSE IF FLt(a, b) THEN (IF descending THEN Greater ELSE Less)
        ELSE IF FGt(a, b) THEN (IF descending THEN Less ELSE Greater)
        ELSE Equal

cmp_with_nulls(a, b, descending, nulls_last) ==
    LET a_null == is_nan(a)
        b_null == is_nan(b)
    IN  IF a_null \/ b_null
        THEN IF a_null /\ b_null THEN Equal
             ELSE IF nulls_last THEN (IF a_null THEN Greater ELSE Less)
             ELSE (IF a_null THEN Less ELSE Greater)
        ELSE IF FLt(a, b) THEN (IF descending THEN Greater ELSE Less)
        ELSE IF FGt(a, b) THEN (IF descending THEN Less ELSE Greater)
        ELSE Equal

\* the Text arm of argsort_mixed_core's sort_fn
cmp_text(a, b, desc, null_last) ==
    IF ~is_some(a) /\ ~is_some(b) THEN Equal
    ELSE IF ~is_some(a) THEN (IF null_last THEN Greater ELSE Less)
    ELSE IF ~is_some(b) THEN (IF null_last THEN Less ELSE Greater)
    ELSE LET cmp == str_cmp(unwrap(a), unwrap(b))
         IN  IF desc THEN reverse(cmp) ELSE cmp

-----------------------------------------------------------------------------
(* slice::sort_unstable_by and rayon's par_sort_unstable_by.  Both reorder  *)
(* the slice in place into an order sorted by the comparator; neither is   *)
(* stable, so which of the sorted arrangements comes out is not specified: *)
(* each is the set of the arrangements the call may leave, for a          *)
(* comparator that is a total preorder (cmp_with_nulls and str::cmp are).  *)

\* the permutations of 1..n, for every length a modelled column can have
PermTable ==
    [n \in 0..(MaxRows + 1) |->
        {p \in [1..n -> 1..n] : \A a, b \in 1..n : a # b => p[a] # p[b]}]

PermsOf(n) == PermTable[n]

Rearrangements(v) == {[k \in 1..Len(v) |-> v[p[k]]] : p \in PermsOf(Len(v))}

\* compare is the closure handed to the sort, as the function <<i, j>> |-> Ordering
IsSortedBy(v, compare) ==
    \A a, b \in 1..Len(v) : a < b => compare[v[a], v[b]] # Greater

sort_unstable_by(v, compare) == {w \in Rearrangements(v) : IsSortedBy(w, compare)}

par_sort_unstable_by(v, compare) == {w \in Rearrangements(v) : IsSortedBy(w, compare)}

-----------------------------------------------------------------------------
(* ColumnData and the two sort cores *)

Numeric(values) == [tag |-> "Numeric", values |-> values]
Text(values) == [tag |-> "Text", values |-> values]

\* (0..len).collect(), one row short
InitIndicesShort(len) == [k \in 1..(len - 1) |-> k - 1]

\* (0..len).collect()
InitIndices(len) == [k \in 1..len |-> k - 1]

\* len < PAR_SORT_THRESHOLD
sort_dispatch(len) == IF len < PAR_SORT_THRESHOLD THEN "seq" ELSE "par"

\* the closure comparing on the first key only
sort_fn_numeric_firstkey(arrays, descending, nulls_last, i, j) ==
    IF Len(arrays) = 0 THEN Equal
    ELSE cmp_with_nulls(At(arrays[1], i), At(arrays[1], j),
                        descending[1], nulls_last[1])

RECURSIVE sort_fn_numeric_from(_, _, _, _, _, _)
sort_fn_numeric_from(arrays, descending, nulls_last, i, j, col_idx) ==
    IF col_idx >= Len(arrays) THEN Equal
    ELSE LET col == At(arrays, col_idx)
             desc == At(descending, col_idx)
             null_last == At(nulls_last, col_idx)
             ord == cmp_with_nulls(At(col, i), At(col, j), desc, null_last)
         IN  IF ord # Equal THEN ord
             ELSE sort_fn_numeric_from(arrays, descending, nulls_last, i, j, col_idx + 1)

\* the closure sort_fn of argsort_numeric_core
sort_fn_numeric(arrays, descending, nulls_last, i, j) ==
    sort_fn_numeric_from(arrays, descending, nulls_last, i, j, 0)

argsort_numeric_core(arrays, descending, nulls_last) ==
    IF Len(arrays) = 0 THEN {<<>>}
    ELSE LET len == Len(arrays[1])
             indices == InitIndices(len)
             sort_fn == [i \in 0..(len - 1), j \in 0..(len - 1) |->
                            sort_fn_numeric(arrays, descending, nulls_last, i, j)]
         IN  IF sort_dispatch(len) = "seq"
             THEN sort_unstable_by(indices, sort_fn)
             ELSE par_sort_unstable_by(indices, sort_fn)

\* the closure with every Text key taken as Equal
sort_fn_mixed_skiptext(parsed, descending, nulls_last, i, j) ==
    LET arrays == [k \in 1..Len(parsed) |->
                      IF parsed[k].tag = "Numeric" THEN parsed[k].values
                      ELSE [r \in 1..Len(parsed[k].values) |-> NaN]]
    IN  sort_fn_numeric(arrays, descending, nulls_last, i, j)

RECURSIVE sort_fn_mixed_from(_, _, _, _, _, _)
sort_fn_mixed_from(parsed, descending, nulls_last, i, j, col_idx) ==
    IF col_idx >= Len(parsed) THEN Equal
    ELSE LET col == At(parsed, col_idx)
             desc == At(descending, col_idx)
             null_last == At(nulls_last, col_idx)
             ord == IF col.tag = "Numeric"
                    THEN cmp_with_nulls(At(col.values, i), At(col.values, j), desc, null_last)
                    ELSE cmp_text(At(col.values, i), At(col.values, j), desc, null_last)
         IN  IF ord # Equal THEN ord
             ELSE sort_fn_mixed_from(parsed, descending, nulls_last, i, j, col_idx + 1)

\* the closure sort_fn of argsort_mixed_core
sort_fn_mixed(parsed, descending, nulls_last, i, j) ==
    sort_fn_mixed_from(parsed, descending, nulls_last, i, j, 0)

argsort_mixed_core(parsed, descending, nulls_last) ==
    IF Len(parsed) = 0 THEN {<<>>}
    ELSE LET row_count == Len(parsed[1].values)
             indices == InitIndices(row_count)
             sort_fn == [i \in 0..(row_count - 1), j \in 0..(row_count - 1) |->
                            sort_fn_mixed(parsed, descending, nulls_last, i, j)]
         IN  IF sort_dispatch(row_count) = "seq"
             THEN sort_unstable_by(indices, sort_fn)
             ELSE par_sort_unstable_by(indices, sort_fn)

-----------------------------------------------------------------------------
(* The exported sort functions.  Each is the set of the outcomes           *)
(* [ret, path] the call may have: ret is the PyResult, path the side of    *)
(* the threshold dispatch taken ("none" when the core is not reached).     *)
(* Non-contiguous numpy views and objects of the wrong Python type are not *)
(* modelled: every numeric column is a flat slice of f64.                  *)

Ok(v) == [kind |-> "Ok", val |-> v, err |-> ""]
Err(e) == [kind |-> "Err", val |-> <<>>, err |-> e]

Outcome(r, p) == [ret |-> r, path |-> p]

argsort_numeric(columns, descending, nulls_last) ==
    IF Len(columns) = 0 THEN {Outcome(Ok(<<>>), "none")}
    ELSE IF Len(descending) # Len(columns) \/ Len(nulls_last) # Len(columns)
    THEN {Outcome(Err("LengthMismatch"), "none")}
    ELSE LET len == Len(columns[1])
         IN  IF \E k \in 1..Len(columns) : Len(columns[k]) # len
             THEN {Outcome(Err("LengthMismatch"), "none")}
             ELSE {Outcome(Ok(v), sort_dispatch(len)) :
                      v \in argsort_numeric_core(columns, descending, nulls_last)}

argsort_mixed(columns, is_string, descending, nulls_last) ==
    IF Len(columns) = 0 THEN {Outcome(Ok(<<>>), "none")}
    ELSE LET count == Len(columns)
         IN  IF Len(is_string) # count \/ Len(descending) # count \/ Len(nulls_last) # count
             THEN {Outcome(Err("LengthMismatch"), "none")}
             ELSE LET rows == Len(columns[1].values)
                  IN  IF \E k \in 1..count : Len(columns[k].values) # rows
                      THEN {Outcome(Err("LengthMismatch"), "none")}
                      ELSE IF rows = 0 THEN {Outcome(Ok(<<>>), "none")}
                      ELSE {Outcome(Ok(v), sort_dispatch(rows)) :
                               v \in argsort_mixed_core(columns, descending, nulls_last)}

-----------------------------------------------------------------------------
(* The inputs the model draws *)

CmpNumPool == {NaN, NegInf, F(-1), F(0), F(1), <<1, 2>>, F(2), PosInf}
CmpTextPool == {None, Some(<<>>), Some(<<97>>), Some(<<97, 98>>), Some(<<98>>)}

SortNumPool == <<NaN, F(1), F(2)>>
SortTextPool == <<None, Some(<<97>>), Some(<<97, 98>>)>>

Flags(n) == [1..n -> BOOLEAN]
AllFalse(n) == [k \in 1..n |-> FALSE]

\* (columns, rows) of the well-formed calls
Shapes == {s \in (1..MaxCols) \X (0..MaxRows) : s[1] * s[1] * s[2] <= MaxWork}

Call(fn, columns, is_string, descending, nulls_last) ==
    [fn |-> fn, columns |-> columns, is_string |-> is_string,
     descending |-> descending, nulls_last |-> nulls_last]

NoCall == Call("none", <<>>, <<>>, <<>>, <<>>)

\* nc columns of one row each
UnitNumeric(nc) == [k \in 1..nc |-> <<F(1)>>]
UnitMixed(nc) == [k \in 1..nc |-> Numeric(<<F(1)>>)]

\* columns whose row counts are lens
RaggedNumeric(lens) == [k \in 1..Len(lens) |-> [r \in 1..lens[k] |-> F(1)]]
RaggedMixed(lens) == [k \in 1..Len(lens) |-> Numeric([r \in 1..lens[k] |-> F(1)])]

\* a call's columns from the pool positions c, typed by the flags t
NumericColumns(c) ==
    [k \in 1..Len(c) |-> [r \in 1..Len(c[k]) |-> SortNumPool[c[k][r]]]]

MixedColumns(c, t) ==
    [k \in 1..Len(c) |->
        IF t[k] THEN Text([r \in 1..Len(c[k]) |-> SortTextPool[c[k][r]]])
        ELSE Numeric([r \in 1..Len(c[k]) |-> SortNumPool[c[k][r]]])]

-----------------------------------------------------------------------------
(* Comparator harness: one per-column comparison *)

NoCmp == [kind |-> "none", a |-> NaN, b |-> NaN, descending |-> FALSE, nulls_last |-> FALSE]

CmpInit ==
    /\ cmp_in = NoCmp
    /\ cmp_out = "none"

CompareNumeric ==
    /\ cmp_out = "none"
    /\ \E a \in CmpNumPool, b \in CmpNumPool, d \in BOOLEAN, l \in BOOLEAN :
           /\ cmp_in' = [kind |-> "numeric", a |-> a, b |-> b, descending |-> d, nulls_last |-> l]
           /\ cmp_out' = cmp_with_nulls(a, b, d, l)
    /\ UNCHANGED <<sortVars, pathVars, filterVars, scanVars, orderVars>>

CompareText ==
    /\ cmp_out = "none"
    /\ \E a \in CmpTextPool, b \in CmpTextPool, d \in BOOLEAN, l \in BOOLEAN :
           /\ cmp_in' = [kind |-> "text", a |-> a, b |-> b, descending |-> d, nulls_last |-> l]
           /\ cmp_out' = cmp_text(a, b, d, l)
    /\ UNCHANGED <<sortVars, pathVars, filterVars, scanVars, orderVars>>

-----------------------------------------------------------------------------
(* Sort calls *)

NoRet == [kind |-> "None", val |-> <<>>, err |-> ""]

SortInit ==
    /\ scall = NoCall
    /\ sret = NoRet
    /\ spath = "none"

ArgsortNumeric(columns, descending, nulls_last) ==
    \E o \in argsort_numeric(columns, descending, nulls_last) :
        /\ scall' = Call("numeric", columns, <<>>, descending, nulls_last)
        /\ sret' = o.ret
        /\ spath' = o.path
        /\ UNCHANGED <<cmpVars, pathVars, filterVars, scanVars, orderVars>>

ArgsortMixed(columns, is_string, descending, nulls_last) ==
    \E o \in argsort_mixed(columns, is_string, descending, nulls_last) :
        /\ scall' = Call("mixed", columns, is_string, descending, nulls_last)
        /\ sret' = o.ret
        /\ spath' = o.path
        /\ UNCHANGED <<cmpVars, pathVars, filterVars, scanVars, orderVars>>

\* calls with equal row counts and flag arrays as long as the column list
ArgsortNumericWellFormed ==
    /\ scall = NoCall
    /\ \E s \in Shapes :
           \E c \in [1..s[1] -> [1..s[2] -> 1..3]], d \in Flags(s[1]), l \in Flags(s[1]) :
               ArgsortNumeric(NumericColumns(c), d, l)

ArgsortMixedWellFormed ==
    /\ scall = NoCall
    /\ \E s \in Shapes :
           \E c \in [1..s[1] -> [1..s[2] -> 1..3]], t \in Flags(s[1]),
              d \in Flags(s[1]), l \in Flags(s[1]) :
               ArgsortMixed(MixedColumns(c, t), t, d, l)

\* calls whose flag arrays have any lengths (the column list may be empty)
ArgsortNumericFlagLengths ==
    /\ scall = NoCall
    /\ \E nc \in 0..MaxCols, ld \in 0..MaxCols, ln \in 0..MaxCols :
           ArgsortNumeric(UnitNumeric(nc), AllFalse(ld), AllFalse(ln))

ArgsortMixedFlagLengths ==
    /\ scall = NoCall
    /\ \E nc \in 0..MaxCols, lt \in 0..MaxCols, ld \in 0..MaxCols, ln \in 0..MaxCols :
           ArgsortMixed(UnitMixed(nc), AllFalse(lt), AllFalse(ld), AllFalse(ln))

\* calls whose columns have any row counts
ArgsortNumericRagged ==
    /\ scall = NoCall
    /\ \E nc \in 2..MaxCols :
           \E lens \in [1..nc -> 0..MaxRows] :
               ArgsortNumeric(RaggedNumeric(lens), AllFalse(nc), AllFalse(nc))

ArgsortMixedRagged ==
    /\ scall = NoCall
    /\ \E nc \in 2..MaxCols :
           \E lens \in [1..nc -> 0..MaxRows] :
               ArgsortMixed(RaggedMixed(lens), AllFalse(nc), AllFalse(nc), AllFalse(nc))

-----------------------------------------------------------------------------
(* The two sort strategies on one input.  A call takes one side of the    *)
(* dispatch; to compare the strategies the same index vector is sorted by *)
(* both, with the call's comparator.                                      *)

NoRes == [done |-> FALSE, val |-> <<>>]
Res(v) == [done |-> TRUE, val |-> v]

\* the ColumnData view of a call's columns
Parsed(c) ==
    IF c.fn = "numeric" THEN [k \in 1..Len(c.columns) |-> Numeric(c.columns[k])]
    ELSE c.columns

RowCount(c) == IF Len(c.columns) = 0 THEN 0 ELSE Len(Parsed(c)[1].values)

\* the call's closure sort_fn
CallSortFn(c) ==
    [i \in 0..(RowCount(c) - 1), j \in 0..(RowCount(c) - 1) |->
        IF c.fn = "numeric"
        THEN sort_fn_numeric(c.columns, c.descending, c.nulls_last, i, j)
        ELSE sort_fn_mixed(c.columns, c.descending, c.nulls_last, i, j)]

PathsInit ==
    /\ seq_res = NoRes
    /\ par_res = NoRes

PathsInputNumeric ==
    /\ scall = NoCall
    /\ \E s \in Shapes :
           /\ s[2] > 0
           /\ \E c \in [1..s[1] -> [1..s[2] -> 1..3]], d \in Flags(s[1]), l \in Flags(s[1]) :
                  scall' = Call("numeric", NumericColumns(c), <<>>, d, l)
    /\ seq_res' = NoRes
    /\ par_res' = NoRes
    /\ UNCHANGED <<cmpVars, sret, spath, filterVars, scanVars, orderVars>>

\* mixed calls whose last key is a Text column
PathsInputMixed ==
    /\ scall = NoCall
    /\ \E s \in Shapes :
           /\ s[2] > 0
           /\ \E c \in [1..s[1] -> [1..s[2] -> 1..3]], t \in Flags(s[1]),
                 d \in Flags(s[1]), l \in Flags(s[1]) :
                  /\ t[s[1]]
                  /\ scall' = Call("mixed", MixedColumns(c, t), t, d, l)
    /\ seq_res' = NoRes
    /\ par_res' = NoRes
    /\ UNCHANGED <<cmpVars, sret, spath, filterVars, scanVars, orderVars>>

PathsSequential ==
    /\ scall # NoCall
    /\ ~seq_res.done
    /\ \E v \in sort_unstable_by(InitIndices(RowCount(scall)), CallSortFn(scall)) :
           seq_res' = Res(v)
    /\ UNCHANGED <<scall, par_res, cmpVars, sret, spath, filterVars, scanVars, orderVars>>

PathsParallel ==
    /\ scall # NoCall
    /\ ~par_res.done
    /\ \E v \in par_sort_unstable_by(InitIndices(RowCount(scall)), CallSortFn(scall)) :
           par_res' = Res(v)
    /\ UNCHANGED <<scall, seq_res, cmpVars, sret, spath, filterVars, scanVars, orderVars>>

-----------------------------------------------------------------------------
(* Filter: f64 arithmetic of the compiled expression *)

RECURSIVE Gcd(_, _)
Gcd(a, b) == IF b = 0 THEN a ELSE Gcd(b, a % b)

Abs(n) == IF n < 0 THEN 0 - n ELSE n

\* the f64 n/d with d # 0, in lowest terms with a positive denominator
Norm(n, d) ==
    LET g == Gcd(Abs(n), Abs(d))
        s == IF d < 0 THEN 0 - 1 ELSE 1
    IN  <<(s * n) \div g, (s * d) \div g>>

is_inf(a) == a[2] = 0 /\ a[1] # 0

\* IEEE ==: never true of a NaN
FEq(a, b) == ~is_nan(a) /\ ~is_nan(b) /\ a = b

\* IEEE !=: true of a NaN
FNe(a, b) == ~FEq(a, b)

FAdd(a, b) ==
    IF is_nan(a) \/ is_nan(b) THEN NaN
    ELSE IF is_inf(a) THEN (IF is_inf(b) /\ a # b THEN NaN ELSE a)
    ELSE IF is_inf(b) THEN b
    ELSE Norm(a[1] * b[2] + b[1] * a[2], a[2] * b[2])

FDiv(a, b) ==
    IF is_nan(a) \/ is_nan(b) THEN NaN
    ELSE IF is_inf(a) THEN (IF is_inf(b) THEN NaN
                            ELSE IF b[1] < 0 THEN <<0 - a[1], 0>> ELSE a)
    ELSE IF is_inf(b) THEN F(0)
    ELSE IF b[1] = 0 THEN (IF a[1] = 0 THEN NaN
                           ELSE IF a[1] < 0 THEN NegInf ELSE PosInf)
    ELSE Norm(a[1] * b[2], a[2] * b[1])

bool_to_f64(b) == IF b THEN F(1) ELSE F(0)

-----------------------------------------------------------------------------
(* Filter: expressions *)

\* a filter expression: its text followed by pad blanks
Expr(text, pad) == [text |-> text, pad |-> pad]

\* String::len of the expression
expr_len(expr_str) == Len(expr_str.text) + expr_str.pad

expr_too_long_inclusive(expr_str) == expr_len(expr_str) >= MAX_FILTER_EXPR_LEN

\* the length guard of compute_filter_indices
expr_too_long(expr_str) == expr_len(expr_str) > MAX_FILTER_EXPR_LEN

Var(name) == <<"var", name>>
Lit(v) == <<"lit", v>>
Bin(op, l, r) == <<op, l, r>>

NoExpr == <<"none">>

\* the expressions the calls are drawn from
ExprTexts == {"x > 0", "x + y", "x / x", "x > 0 || y > 0", "x > 0 && y > 0"}
BadExprText == "x >"

\* Parser::parse(..).compile(..) on the texts above: comparison binds tighter
\* than &&, which binds tighter than ||; a dangling operator is a parse error
parse(text) ==
    CASE text = "x > 0" -> [ok |-> TRUE, ast |-> Bin("gt", Var("x"), Lit(F(0)))]
      [] text = "x + y" -> [ok |-> TRUE, ast |-> Bin("add", Var("x"), Var("y"))]
      [] text = "x / x" -> [ok |-> TRUE, ast |-> Bin("div", Var("x"), Var("x"))]
      [] text = "x > 0 || y > 0" ->
            [ok |-> TRUE, ast |-> Bin("or", Bin("gt", Var("x"), Lit(F(0))),
                                            Bin("gt", Var("y"), Lit(F(0))))]
      [] text = "x > 0 && y > 0" ->
            [ok |-> TRUE, ast |-> Bin("and", Bin("gt", Var("x"), Lit(F(0))),
                                             Bin("gt", Var("y"), Lit(F(0))))]
      [] OTHER -> [ok |-> FALSE, ast |-> NoExpr]

-----------------------------------------------------------------------------
(* Filter: variable lookup and evaluation of one row *)

\* the HashMap collected from names: a later duplicate replaces an earlier one
name_map_of(names) ==
    [n \in {names[k] : k \in 1..Len(names)} |->
        CHOOSE idx \in 0..(Len(names) - 1) :
            /\ names[idx + 1] = n
            /\ \A j \in 0..(Len(names) - 1) : names[j + 1] = n => j <= idx]

SomeF(v) == [k |-> "some", v |-> v]
NoneF == [k |-> "none", v |-> NaN]
PanicF == [k |-> "panic", v |-> NaN]

IsDigit(b) == b >= 48 /\ b <= 57

RECURSIVE decimal(_, _, _)
decimal(s, k, acc) ==
    IF k > Len(s) THEN acc ELSE decimal(s, k + 1, 10 * acc + (s[k] - 48))

\* s.parse::<f64>().ok() on strings of digits and letters
parse_f64(s) ==
    IF Len(s) > 0 /\ \A k \in 1..Len(s) : IsDigit(s[k])
    THEN SomeF(F(decimal(s, 1, 0)))
    ELSE NoneF

cb_unbound_zero(name_map, parsed, name, i) ==
    IF name \notin DOMAIN name_map THEN SomeF(F(0))
    ELSE LET col == parsed[name_map[name] + 1]
         IN  IF i >= Len(col.values) THEN PanicF
             ELSE LET val == At(col.values, i)
                  IN  IF col.tag = "Numeric"
                      THEN (IF is_nan(val) THEN NoneF ELSE SomeF(val))
                      ELSE (IF is_some(val) THEN parse_f64(unwrap(val)) ELSE NoneF)

\* the lookup callback for row i; slice[i] panics past the end of the column
cb(name_map, parsed, name, i) ==
    IF name \notin DOMAIN name_map THEN NoneF
    ELSE LET col == parsed[name_map[name] + 1]
         IN  IF i >= Len(col.values) THEN PanicF
             ELSE LET val == At(col.values, i)
                  IN  IF col.tag = "Numeric"
                      THEN (IF is_nan(val) THEN NoneF ELSE SomeF(val))
                      ELSE (IF is_some(val) THEN parse_f64(unwrap(val)) ELSE NoneF)

EvOk(v) == [k |-> "ok", v |-> v]
EvErr == [k |-> "err", v |-> NaN]
EvPanic == [k |-> "panic", v |-> NaN]

apply_op(op, a, b) ==
    CASE op = "gt" -> bool_to_f64(FGt(a, b))
      [] op = "add" -> FAdd(a, b)
      [] op = "div" -> FDiv(a, b)

\* compiled.eval(&slab, &mut cb): an undefined variable is an error; || and &&
\* evaluate their right operand only when the left one does not decide
RECURSIVE eval(_, _, _, _)
eval(e, name_map, parsed, i) ==
    IF e[1] = "lit" THEN EvOk(e[2])
    ELSE IF e[1] = "var" THEN
        LET r == cb(name_map, parsed, e[2], i)
        IN  IF r.k = "some" THEN EvOk(r.v)
            ELSE IF r.k = "none" THEN EvErr ELSE EvPanic
    ELSE LET l == eval(e[2], name_map, parsed, i)
         IN  IF l.k # "ok" THEN l
             ELSE IF e[1] = "or" /\ FNe(l.v, F(0)) THEN l
             ELSE IF e[1] = "and" /\ FEq(l.v, F(0)) THEN l
             ELSE LET r == eval(e[3], name_map, parsed, i)
                  IN  IF r.k # "ok" THEN r
                      ELSE IF e[1] \in {"or", "and"} THEN r
                      ELSE EvOk(apply_op(e[1], l.v, r.v))

row_passes_nan(res) == FNe(res, F(0))

\* res != 0.0 && !res.is_nan()
row_passes(res) == FNe(res, F(0)) /\ ~is_nan(res)

\* the closure of filter / filter_map on row i
filter_row(e, name_map, parsed, i) ==
    LET r == eval(e, name_map, parsed, i)
    IN  IF r.k = "panic" THEN "panic"
        ELSE IF r.k = "ok" /\ row_passes(r.v) THEN "keep"
        ELSE "drop"

-----------------------------------------------------------------------------
(* Filter: the two evaluation strategies *)

Panic == [kind |-> "Panic", val |-> <<>>, err |-> "index out of bounds"]

\* (0..row_count).filter(..).collect(): rows in order, up to the first panic
filter_sequential(e, name_map, parsed, n) ==
    LET verdict == [i \in 0..(n - 1) |-> filter_row(e, name_map, parsed, i)]
        panics == {i \in 0..(n - 1) : verdict[i] = "panic"}
        Keep(i) == verdict[i] = "keep"
    IN  IF panics = {}
        THEN [ret |-> Ok(SelectSeq(InitIndices(n), Keep)), evaluated |-> 0..(n - 1)]
        ELSE [ret |-> Panic,
              evaluated |-> 0..(CHOOSE i \in panics : \A j \in panics : i <= j)]

RECURSIVE sorted_seq(_)
sorted_seq(S) ==
    IF S = {} THEN <<>>
    ELSE LET m == CHOOSE x \in S : \A y \in S : x <= y
         IN  <<m>> \o sorted_seq(S \ {m})

\* the row ranges [lo, hi) cut at the points of cuts
ranges_of(cuts, n) ==
    LET b == sorted_seq({0, n} \cup cuts)
    IN  [k \in 1..(Len(b) - 1) |-> <<b[k], b[k + 1]>>]

\* the splits into_par_iter may make of 0..n
Splits(n) ==
    {ranges_of(cuts, n) : cuts \in {c \in SUBSET (1..(n - 1)) : Cardinality(c) < MaxChunks}}

RECURSIVE collect_reversed(_)
collect_reversed(parts) ==
    IF parts = <<>> THEN <<>> ELSE collect_reversed(Tail(parts)) \o Head(parts)

\* collect() of the parallel iterator: the chunks' matches in range order
RECURSIVE collect(_)
collect(parts) ==
    IF parts = <<>> THEN <<>> ELSE Head(parts) \o collect(Tail(parts))

-----------------------------------------------------------------------------
(* Filter calls *)

FilterNumPool == <<NaN, F(0), F(1)>>
FilterTextPool == <<None, Some(<<49>>), Some(<<97>>)>>
FilterRestPool == <<NaN, F(1)>>
NameList == <<"x", "y", "z">>

FilterCall(expr_str, names, columns, is_string) ==
    [expr_str |-> expr_str, names |-> names, columns |-> columns, is_string |-> is_string]

NoFilterCall == FilterCall(Expr("", 0), <<>>, <<>>, <<>>)

FilterInit ==
    /\ fcall = NoFilterCall
    /\ fpc = "idle"
    /\ compiled = NoExpr
    /\ storage = <<>>
    /\ filter_row_count = 0
    /\ chunks = <<>>
    /\ next_row = <<>>
    /\ local = <<>>
    /\ last_worker = 0
    /\ evaluated = {}
    /\ fpath = "none"
    /\ fret = NoRet

\* the call returns ret, having got as far as comp, stor, n and ev
FilterReturn(ret, comp, stor, n, ev, path) ==
    /\ fpc' = "done"
    /\ fret' = ret
    /\ compiled' = comp
    /\ storage' = stor
    /\ filter_row_count' = n
    /\ evaluated' = ev
    /\ fpath' = path
    /\ UNCHANGED <<chunks, next_row, local, last_worker>>

\* compute_filter_indices up to the dispatch; the sequential path runs to the end
compute_filter_indices(expr_str, names, columns, is_string) ==
    /\ fcall' = FilterCall(expr_str, names, columns, is_string)
    /\ UNCHANGED <<cmpVars, sortVars, pathVars, scanVars, orderVars>>
    /\ IF expr_too_long(expr_str)
       THEN FilterReturn(Err("ExpressionTooLong"), NoExpr, <<>>, 0, {}, "none")
       ELSE LET p == parse(expr_str.text) IN
       IF ~p.ok
       THEN FilterReturn(Err("ExpressionParseError"), NoExpr, <<>>, 0, {}, "none")
       ELSE IF Len(names) # Len(columns) \/ Len(names) # Len(is_string)
       THEN FilterReturn(Err("LengthMismatch"), p.ast, <<>>, 0, {}, "none")
       ELSE LET n == IF Len(columns) = 0 THEN 0 ELSE Len(columns[1].values) IN
       IF n = 0
       THEN FilterReturn(Ok(<<>>), p.ast, columns, 0, {}, "none")
       ELSE IF n >= PAR_FILTER_THRESHOLD
       THEN \E split \in Splits(n) :
                /\ fpc' = "par"
                /\ fret' = NoRet
                /\ compiled' = p.ast
                /\ storage' = columns
                /\ filter_row_count' = n
                /\ evaluated' = {}
                /\ fpath' = "par"
                /\ chunks' = split
                /\ next_row' = [k \in 1..Len(split) |-> split[k][1]]
                /\ local' = [k \in 1..Len(split) |-> <<>>]
                /\ last_worker' = 0
       ELSE LET r == filter_sequential(p.ast, name_map_of(names), columns, n)
            IN  FilterReturn(r.ret, p.ast, columns, n, r.evaluated, "seq")

\* columns from pool positions: the first one typed by t, the others numeric
FilterColumns(c, t) ==
    [k \in 1..Len(c) |->
        IF k = 1
        THEN (IF t THEN Text([r \in 1..Len(c[k]) |-> FilterTextPool[c[k][r]]])
              ELSE Numeric([r \in 1..Len(c[k]) |-> FilterNumPool[c[k][r]]]))
        ELSE Numeric([r \in 1..Len(c[k]) |-> FilterRestPool[((c[k][r]) % 2) + 1]])]

FilterFlags(nc, t) == [k \in 1..nc |-> k = 1 /\ t]

\* calls with one name and one flag per column and equal row counts
FilterWellFormed ==
    /\ fpc = "idle"
    /\ \E s \in Shapes, text \in ExprTexts, t \in BOOLEAN :
           \E c \in [1..s[1] -> [1..s[2] -> 1..3]] :
               /\ \A k \in 2..s[1] : \A r \in 1..s[2] : c[k][r] # 3
               /\ compute_filter_indices(Expr(text, 0), SubSeq(NameList, 1, s[1]),
                                         FilterColumns(c, t), FilterFlags(s[1], t))

\* calls whose expression is long, or does not parse
FilterExpression ==
    /\ fpc = "idle"
    /\ \E text \in {"x > 0", BadExprText},
          len \in (MAX_FILTER_EXPR_LEN - 1)..(MAX_FILTER_EXPR_LEN + 1),
          nc \in 0..MaxCols, n \in 0..MaxCols :
           compute_filter_indices(Expr(text, len - Len(text)), SubSeq(NameList, 1, n),
                                  UnitMixed(nc), AllFalse(nc))

\* calls whose names, columns and flags differ in number
FilterArgLengths ==
    /\ fpc = "idle"
    /\ \E text \in {"x > 0", BadExprText},
          n \in 0..MaxCols, nc \in 0..MaxCols, nf \in 0..MaxCols :
           /\ n # nc \/ n # nf
           /\ compute_filter_indices(Expr(text, 0), SubSeq(NameList, 1, n),
                                     UnitMixed(nc), AllFalse(nf))

\* calls whose columns differ in row count
FilterRagged ==
    /\ fpc = "idle"
    /\ \E text \in ExprTexts, nc \in 2..MaxCols :
           \E lens \in [1..nc -> 0..MaxRows] :
               /\ \E j, k \in 1..nc : lens[j] # lens[k]
               /\ nc * nc * lens[1] <= MaxWork
               /\ compute_filter_indices(Expr(text, 0), SubSeq(NameList, 1, nc),
                                         RaggedMixed(lens), AllFalse(nc))

\* a worker of the parallel path evaluates the next row of its range
FilterWorker ==
    /\ fpc = "par"
    /\ \E w \in 1..Len(chunks) :
           /\ next_row[w] < chunks[w][2]
           /\ LET i == next_row[w]
                  v == filter_row(compiled, name_map_of(fcall.names), storage, i)
              IN  /\ evaluated' = evaluated \cup {i}
                  /\ last_worker' = w
                  /\ next_row' = [next_row EXCEPT ![w] = i + 1]
                  /\ local' = [local EXCEPT ![w] = IF v = "keep" THEN Append(@, i) ELSE @]
                  /\ IF v = "panic"
                     THEN fpc' = "done" /\ fret' = Panic
                     ELSE UNCHANGED <<fpc, fret>>
    /\ UNCHANGED <<fcall, compiled, storage, filter_row_count, chunks, fpath>>
    /\ UNCHANGED <<cmpVars, sortVars, pathVars, scanVars, orderVars>>

\* every worker has finished: the call returns the collected indices
FilterCollect ==
    /\ fpc = "par"
    /\ \A w \in 1..Len(chunks) : next_row[w] = chunks[w][2]
    /\ fpc' = "done"
    /\ fret' = Ok(collect(local))
    /\ UNCHANGED <<fcall, compiled, storage, filter_row_count, chunks, next_row, local,
                   last_worker, evaluated, fpath>>
    /\ UNCHANGED <<cmpVars, sortVars, pathVars, scanVars, orderVars>>

-----------------------------------------------------------------------------
(* fast_scan_log: the return code of a log.  A text is a sequence of       *)
(* character codes; the two return-code patterns are matched on the        *)
(* characters.  Neither pattern can match inside another match of itself,  *)
(* so the last item of captures_iter is the match that starts last.  The   *)
(* error-message loop and the context (lines 355 to 386) do not write rc   *)
(* and are not modelled; digits outside ASCII are not modelled.            *)

I32_MAX == 2147483647

SomeRc(n) == [k |-> "some", v |-> n]
NoRc == [k |-> "none", v |-> 0]

\* m.as_str().parse::<i32>().ok() on a run of digits
RECURSIVE parse_i32_from(_, _, _)
parse_i32_from(digits, k, acc) ==
    IF k > Len(digits) THEN SomeRc(acc)
    ELSE LET d == digits[k] - 48
         IN  IF acc > (I32_MAX - d) \div 10 THEN NoRc
             ELSE parse_i32_from(digits, k + 1, 10 * acc + d)

parse_i32(digits) == parse_i32_from(digits, 1, 0)

\* \w
is_word(c) == IsDigit(c) \/ (c >= 65 /\ c <= 90) \/ (c >= 97 /\ c <= 122) \/ c = 95

starts_with(s, p, lit) ==
    /\ p + Len(lit) - 1 <= Len(s)
    /\ \A k \in 1..Len(lit) : s[p + k - 1] = lit[k]

\* the position after the run of digits that starts at p
RECURSIVE digits_end(_, _)
digits_end(s, p) ==
    IF p <= Len(s) /\ IsDigit(s[p]) THEN digits_end(s, p + 1) ELSE p

\* "{search r("
SearchOpen == <<123, 115, 101, 97, 114, 99, 104, 32, 114, 40>>

\* \{search r\((\d+)\) matches at p
re_rc_primary(s, p) ==
    /\ starts_with(s, p, SearchOpen)
    /\ LET q == digits_end(s, p + Len(SearchOpen))
       IN  q > p + Len(SearchOpen) /\ q <= Len(s) /\ s[q] = 41

primary_capture(s, p) ==
    SubSeq(s, p + Len(SearchOpen), digits_end(s, p + Len(SearchOpen)) - 1)

\* \br\((\d+)\);? matches at p
re_rc_secondary(s, p) ==
    /\ starts_with(s, p, <<114, 40>>)
    /\ p = 1 \/ ~is_word(s[p - 1])
    /\ LET q == digits_end(s, p + 2)
       IN  q > p + 2 /\ q <= Len(s) /\ s[q] = 41

secondary_capture(s, p) == SubSeq(s, p + 2, digits_end(s, p + 2) - 1)

\* captures_iter(..).last(): the start of the last match, 0 when there is none
last_match(starts) ==
    IF starts = {} THEN 0 ELSE CHOOSE p \in starts : \A q \in starts : q <= p

\* rc.unwrap_or(rc_default)
unwrap_or(rc, default) == IF rc = NoRc THEN default ELSE rc.v

ScanRet(rc, code) == [done |-> TRUE, rc |-> rc, error_code |-> code]
NoScan == [done |-> FALSE, rc |-> NoRc, error_code |-> 0]

fast_scan_log_positional(smcl_content, rc_default) ==
    LET s == smcl_content
        pp == last_match({p \in 1..Len(s) : re_rc_primary(s, p)})
        sp == last_match({p \in 1..Len(s) : re_rc_secondary(s, p)})
        rc == IF sp # 0 THEN parse_i32(secondary_capture(s, sp))
              ELSE IF pp # 0 THEN parse_i32(primary_capture(s, pp))
              ELSE NoRc
    IN  ScanRet(rc, unwrap_or(rc, rc_default))

\* fast_scan_log: rc and the code of the default error message
fast_scan_log(smcl_content, rc_default) ==
    LET s == smcl_content
        pp == last_match({p \in 1..Len(s) : re_rc_primary(s, p)})
        rc1 == IF pp # 0 THEN parse_i32(primary_capture(s, pp)) ELSE NoRc
        sp == last_match({p \in 1..Len(s) : re_rc_secondary(s, p)})
        rc == IF rc1 = NoRc
              THEN (IF sp # 0 THEN parse_i32(secondary_capture(s, sp)) ELSE NoRc)
              ELSE rc1
    IN  ScanRet(rc, unwrap_or(rc, rc_default))

\* the digits of the markers: "1", "22", "2147483647", "2147483648"
DigitPool ==
    << <<49>>, <<50, 50>>,
       <<50, 49, 52, 55, 52, 56, 51, 54, 52, 55>>,
       <<50, 49, 52, 55, 52, 56, 51, 54, 52, 56>> >>

\* the pieces a log is made of: a kind of marker and the index of its digits
Segment(kind, n) == [kind |-> kind, n |-> n]

SegmentPool ==
    {Segment(kind, n) : kind \in {"primary", "bare", "plain"}, n \in 1..Len(DigitPool)}
    \cup {Segment("word", 1), Segment("empty", 1)}

\* primary "{search r(N)}", bare "r(N);", plain "r(N)", word "ar(N);" and
\* empty "{search r()}", each followed by a blank
segment_text(seg) ==
    LET n == DigitPool[seg.n]
    IN  CASE seg.kind = "primary" -> SearchOpen \o n \o <<41, 125, 32>>
          [] seg.kind = "bare" -> <<114, 40>> \o n \o <<41, 59, 32>>
          [] seg.kind = "plain" -> <<114, 40>> \o n \o <<41, 32>>
          [] seg.kind = "word" -> <<97, 114, 40>> \o n \o <<41, 59, 32>>
          [] seg.kind = "empty" -> SearchOpen \o <<41, 125, 32>>

RECURSIVE log_text(_)
log_text(segs) ==
    IF segs = <<>> THEN <<>> ELSE segment_text(Head(segs)) \o log_text(Tail(segs))

ScanInit ==
    /\ log_segs = <<>>
    /\ scan_content = <<>>
    /\ scan_default = 0
    /\ scan_ret = NoScan

FastScanLog ==
    /\ ~scan_ret.done
    /\ \E len \in 0..MaxSegs, d \in {0, 1} :
           \E segs \in [1..len -> SegmentPool] :
               /\ log_segs' = segs
               /\ scan_content' = log_text(segs)
               /\ scan_default' = d
               /\ scan_ret' = fast_scan_log(log_text(segs), d)
    /\ UNCHANGED <<cmpVars, sortVars, pathVars, filterVars, orderVars>>

-----------------------------------------------------------------------------
(* Comparator harness on triples: the comparisons a sort makes of three    *)
(* values of one column, or of three rows under the closure sort_fn        *)

OrdIn(kind, subject, descending, nulls_last) ==
    [kind |-> kind, subject |-> subject, descending |-> descending,
     nulls_last |-> nulls_last]

OrdOut(aa, ab, ba, bc, ac) == [aa |-> aa, ab |-> ab, ba |-> ba, bc |-> bc, ac |-> ac]

NoOrd == OrdIn("none", <<>>, FALSE, FALSE)
NoOrdOut == OrdOut("none", "none", "none", "none", "none")

OrderInit ==
    /\ ord_in = NoOrd
    /\ ord_out = NoOrdOut

\* cmp_with_nulls on the pairs of a, b, c
OrderNumeric ==
    /\ ord_in.kind = "none"
    /\ \E a \in CmpNumPool, b \in CmpNumPool, c \in CmpNumPool, d \in BOOLEAN, l \in BOOLEAN :
           /\ ord_in' = OrdIn("numeric", <<a, b, c>>, d, l)
           /\ ord_out' = OrdOut(cmp_with_nulls(a, a, d, l), cmp_with_nulls(a, b, d, l),
                                cmp_with_nulls(b, a, d, l), cmp_with_nulls(b, c, d, l),
                                cmp_with_nulls(a, c, d, l))
    /\ UNCHANGED <<cmpVars, sortVars, pathVars, filterVars, scanVars>>

\* the Text arm of sort_fn on the pairs of a, b, c
OrderText ==
    /\ ord_in.kind = "none"
    /\ \E a \in CmpTextPool, b \in CmpTextPool, c \in CmpTextPool, d \in BOOLEAN, l \in BOOLEAN :
           /\ ord_in' = OrdIn("text", <<a, b, c>>, d, l)
           /\ ord_out' = OrdOut(cmp_text(a, a, d, l), cmp_text(a, b, d, l),
                                cmp_text(b, a, d, l), cmp_text(b, c, d, l),
                                cmp_text(a, c, d, l))
    /\ UNCHANGED <<cmpVars, sortVars, pathVars, filterVars, scanVars>>

\* the closure of argsort_numeric_core on the pairs of rows 0, 1, 2
OrderChainNumeric ==
    /\ ord_in.kind = "none"
    /\ \E s \in {sh \in Shapes : sh[2] = 3} :
           \E c \in [1..s[1] -> [1..s[2] -> 1..3]], d \in Flags(s[1]), l \in Flags(s[1]) :
               LET cols == NumericColumns(c)
               IN  /\ ord_in' = OrdIn("chain_numeric", cols, d, l)
                   /\ ord_out' = OrdOut(sort_fn_numeric(cols, d, l, 0, 0),
                                        sort_fn_numeric(cols, d, l, 0, 1),
                                        sort_fn_numeric(cols, d, l, 1, 0),
                                        sort_fn_numeric(cols, d, l, 1, 2),
                                        sort_fn_numeric(cols, d, l, 0, 2))
    /\ UNCHANGED <<cmpVars, sortVars, pathVars, filterVars, scanVars>>

\* the closure of argsort_mixed_core, with a Text key, on the pairs of rows 0, 1, 2
OrderChainMixed ==
    /\ ord_in.kind = "none"
    /\ \E s \in {sh \in Shapes : sh[2] = 3} :
           \E c \in [1..s[1] -> [1..s[2] -> 1..3]], t \in Flags(s[1]),
              d \in Flags(s[1]), l \in Flags(s[1]) :
               /\ \E k \in 1..s[1] : t[k]
               /\ LET cols == MixedColumns(c, t)
                  IN  /\ ord_in' = OrdIn("chain_mixed", cols, d, l)
                      /\ ord_out' = OrdOut(sort_fn_mixed(cols, d, l, 0, 0),
                                           sort_fn_mixed(cols, d, l, 0, 1),
                                           sort_fn_mixed(cols, d, l, 1, 0),
                                           sort_fn_mixed(cols, d, l, 1, 2),
                                           sort_fn_mixed(cols, d, l, 0, 2))
    /\ UNCHANGED <<cmpVars, sortVars, pathVars, filterVars, scanVars>>

-----------------------------------------------------------------------------
(* Specifications *)

Init == CmpInit /\ SortInit /\ PathsInit /\ FilterInit /\ ScanInit /\ OrderInit

CmpNext == CompareNumeric \/ CompareText
SpecCmp == Init /\ [][CmpNext]_vars

SortNext ==
    \/ ArgsortNumericWellFormed
    \/ ArgsortMixedWellFormed
    \/ ArgsortNumericFlagLengths
    \/ ArgsortMixedFlagLengths
    \/ ArgsortNumericRagged
    \/ ArgsortMixedRagged
SpecSort == Init /\ [][SortNext]_vars

PathsNext == PathsInputNumeric \/ PathsInputMixed \/ PathsSequential \/ PathsParallel
SpecPaths == Init /\ [][PathsNext]_vars

FilterNext ==
    \/ FilterWellFormed
    \/ FilterExpression
    \/ FilterArgLengths
    \/ FilterRagged
    \/ FilterWorker
    \/ FilterCollect
SpecFilter == Init /\ [][FilterNext]_vars

ScanNext == FastScanLog
SpecScan == Init /\ [][ScanNext]_vars

OrderNext == OrderNumeric \/ OrderText \/ OrderChainNumeric \/ OrderChainMixed
SpecOrder == Init /\ [][OrderNext]_vars

-----------------------------------------------------------------------------
(* Vocabulary of the properties *)

IsNull(kind, v) == IF kind = "numeric" THEN v = NaN ELSE v = None

CmpByKind(kind, a, b, d, l) ==
    IF kind = "numeric" THEN cmp_with_nulls(a, b, d, l) ELSE cmp_text(a, b, d, l)

\* the per-column comparator on rows i, j of key k of call c
KeyCmp(c, k, i, j) ==
    LET col == Parsed(c)[k]
    IN  CmpByKind(IF col.tag = "Numeric" THEN "numeric" ELSE "text",
                  At(col.values, i), At(col.values, j), c.descending[k], c.nulls_last[k])

\* the first non-Equal per-column result on rows i, j, in key order
FirstNonEqual(c, i, j) ==
    LET ks == {k \in 1..Len(c.columns) : KeyCmp(c, k, i, j) # Equal}
    IN  IF ks = {} THEN Equal
        ELSE KeyCmp(c, CHOOSE k \in ks : \A m \in ks : k <= m, i, j)

AllKeysEqual(c, i, j) == \A k \in 1..Len(c.columns) : KeyCmp(c, k, i, j) = Equal

NoTiedRows(c) ==
    \A i, j \in 0..(RowCount(c) - 1) : i # j => ~AllKeysEqual(c, i, j)

-----------------------------------------------------------------------------
\* C1: every argsort call that returns Ok returns a sequence of length
\* row_count that holds each index of [0, row_count) exactly once.
C1_Permutation ==
    sret.kind = "Ok" =>
        /\ Len(sret.val) = RowCount(scall)
        /\ \A i \in 0..(RowCount(scall) - 1) :
               Cardinality({k \in 1..Len(sret.val) : sret.val[k] = i}) = 1

\* a mixed call on the parallel side returned a reordering of three rows
C1_Witness ==
    /\ sret.kind = "Ok"
    /\ scall.fn = "mixed"
    /\ spath = "par"
    /\ Len(sret.val) = 3
    /\ sret.val # <<0, 1, 2>>

\* C2: in the returned permutation, for every two adjacent positions the
\* first non-Equal per-column result, in key order, is Less and never
\* Greater; a key that compares Equal (both values null included) falls
\* through to the next key.
C2_LexicographicOrder ==
    sret.kind = "Ok" =>
        \A k \in 1..(Len(sret.val) - 1) :
            FirstNonEqual(scall, sret.val[k], sret.val[k + 1]) # Greater

\* two rows null on the first key were put in order by the second key, against
\* their input order
C2_Witness ==
    /\ sret.kind = "Ok"
    /\ Len(scall.columns) = 2
    /\ \E k \in 1..(Len(sret.val) - 1) :
           LET i == sret.val[k]
               j == sret.val[k + 1]
           IN  /\ IsNull("numeric", At(Parsed(scall)[1].values, i))
               /\ IsNull("numeric", At(Parsed(scall)[1].values, j))
               /\ KeyCmp(scall, 1, i, j) = Equal
               /\ KeyCmp(scall, 2, i, j) = Less
               /\ i > j

\* C3: with exactly one null the result is the null placement (null Greater
\* under nulls_last, Less otherwise) and is the same for both directions;
\* with no null the result under one direction is the reverse of the result
\* under the other; with two nulls it is Equal.
C3_NullPlacementIgnoresDirection ==
    cmp_out # "none" =>
        LET a == cmp_in.a
            b == cmp_in.b
            l == cmp_in.nulls_last
            an == IsNull(cmp_in.kind, a)
            bn == IsNull(cmp_in.kind, b)
            flipped == CmpByKind(cmp_in.kind, a, b, ~cmp_in.descending, l)
        IN  /\ (an /\ bn) => cmp_out = Equal
            /\ (an /\ ~bn) => cmp_out = (IF l THEN Greater ELSE Less) /\ flipped = cmp_out
            /\ (~an /\ bn) => cmp_out = (IF l THEN Less ELSE Greater) /\ flipped = cmp_out
            /\ (~an /\ ~bn) => cmp_out = reverse(flipped)

\* a descending, nulls-last comparison of a null with a value came out Greater
C3_Witness ==
    /\ cmp_in.kind = "numeric"
    /\ cmp_in.a = NaN
    /\ cmp_in.b = F(1)
    /\ cmp_in.descending
    /\ cmp_in.nulls_last
    /\ cmp_out = Greater

\* C4 as stated: the sequential and the parallel sort of the same input
\* return the identical permutation, also when rows are equal on every key.
C4_PathsIdentical ==
    (seq_res.done /\ par_res.done) => seq_res.val = par_res.val

\* C4 as amended: the two sorts return permutations whose rows at each output
\* position are equal on every key, and the identical permutation when no two
\* rows are equal on every key.
C4_PathsAgreeUpToTies ==
    (seq_res.done /\ par_res.done) =>
        /\ Len(seq_res.val) = Len(par_res.val)
        /\ \A k \in 1..Len(seq_res.val) :
               AllKeysEqual(scall, seq_res.val[k], par_res.val[k])
        /\ NoTiedRows(scall) => seq_res.val = par_res.val

\* both sorts ran on a mixed input of three distinct rows and agree on a
\* reordering
C4_Witness ==
    /\ seq_res.done
    /\ par_res.done
    /\ scall.fn = "mixed"
    /\ RowCount(scall) = 3
    /\ NoTiedRows(scall)
    /\ seq_res.val = par_res.val
    /\ seq_res.val # <<0, 1, 2>>

\* C10 as stated: a sort call whose descending, nulls_last or is_string
\* array is not as long as the column list fails with LengthMismatch, for
\* every number of columns, zero included.
C10_FlagLengthsRejected ==
    (/\ scall # NoCall
     /\ \/ Len(scall.descending) # Len(scall.columns)
        \/ Len(scall.nulls_last) # Len(scall.columns)
        \/ scall.fn = "mixed" /\ Len(scall.is_string) # Len(scall.columns))
    => sret = Err("LengthMismatch")

\* the same with at least one column, which the code does reject
C10_FlagLengthsRejectedNonEmpty ==
    (/\ scall # NoCall
     /\ Len(scall.columns) > 0
     /\ \/ Len(scall.descending) # Len(scall.columns)
        \/ Len(scall.nulls_last) # Len(scall.columns)
        \/ scall.fn = "mixed" /\ Len(scall.is_string) # Len(scall.columns))
    => sret = Err("LengthMismatch")

-----------------------------------------------------------------------------
(* Vocabulary of the filter properties *)

\* the call got past the expression and argument-count checks
FilterValidated ==
    /\ fcall # NoFilterCall
    /\ expr_len(fcall.expr_str) <= MAX_FILTER_EXPR_LEN
    /\ parse(fcall.expr_str.text).ok
    /\ Len(fcall.names) = Len(fcall.columns)
    /\ Len(fcall.names) = Len(fcall.is_string)

\* two columns of the call differ in row count
FilterRaggedColumns ==
    \E j, k \in 1..Len(fcall.columns) :
        Len(fcall.columns[j].values) # Len(fcall.columns[k].values)

InResult(i) == \E k \in 1..Len(fret.val) : fret.val[k] = i

FilterRows == 0..(filter_row_count - 1)

EvalRow(i) == eval(compiled, name_map_of(fcall.names), storage, i)

\* variable name has no value on row i: unbound, NaN, absent or unparsable text
Unknown(name, i) ==
    \/ \A k \in 1..Len(fcall.names) : fcall.names[k] # name
    \/ /\ \E k \in 1..Len(fcall.names) : fcall.names[k] = name
       /\ LET col == storage[name_map_of(fcall.names)[name] + 1]
          IN  /\ i < Len(col.values)
              /\ LET val == At(col.values, i)
                 IN  IF col.tag = "Numeric" THEN val = NaN
                     ELSE val = None \/ parse_f64(unwrap(val)) = NoneF

\* the variables the expression mentions
RECURSIVE vars_of(_)
vars_of(e) ==
    IF e[1] = "lit" THEN {}
    ELSE IF e[1] = "var" THEN {e[2]}
    ELSE vars_of(e[2]) \cup vars_of(e[3])

\* the variables the evaluation of row i looks up
RECURSIVE reads_of(_, _)
reads_of(e, i) ==
    IF e[1] = "lit" THEN {}
    ELSE IF e[1] = "var" THEN {e[2]}
    ELSE LET l == eval(e[2], name_map_of(fcall.names), storage, i)
         IN  reads_of(e[2], i) \cup
             (IF l.k # "ok" THEN {}
              ELSE IF e[1] = "or" /\ l.v # F(0) THEN {}
              ELSE IF e[1] = "and" /\ l.v = F(0) THEN {}
              ELSE reads_of(e[3], i))

\* no error comes out of evaluating rows: an Err is decided before the first
\* row, and a panic is an index past the end of a column
NoErrorFromRows ==
    /\ fret.kind = "Err" => evaluated = {}
    /\ fret.kind = "Panic" =>
           \E k \in 1..Len(storage) : Len(storage[k].values) < filter_row_count

-----------------------------------------------------------------------------
\* C5: the indices a filter call returns are strictly ascending, and the
\* parallel path returns, for every split of the rows and every interleaving
\* of its workers, the sequence the sequential path returns on the same input.
C5_AscendingAndSequential ==
    (fpc = "done" /\ fret.kind = "Ok") =>
        /\ \A a, b \in 1..Len(fret.val) : a < b => fret.val[a] < fret.val[b]
        /\ fpath = "par" =>
               fret = filter_sequential(compiled, name_map_of(fcall.names), storage,
                                        filter_row_count).ret

\* a parallel call of two ranges, both with matches, where the worker of the
\* first range was the last to finish
C5_Witness ==
    /\ fpc = "done" /\ fret.kind = "Ok" /\ fpath = "par"
    /\ Len(chunks) >= 2
    /\ last_worker = 1
    /\ local[1] # <<>> /\ local[2] # <<>>

\* C6: row i is in the result of a filter call iff evaluating the expression
\* on row i succeeds with a result that is nonzero and not NaN, on the
\* sequential and on the parallel path.
C6_IncludedIffTruthy ==
    (fpc = "done" /\ fret.kind = "Ok") =>
        \A i \in FilterRows :
            InResult(i) <=>
                LET r == EvalRow(i) IN r.k = "ok" /\ r.v # F(0) /\ r.v # NaN

\* a parallel call with a row kept, a row whose result is NaN and a row whose
\* evaluation fails
C6_Witness ==
    /\ fpc = "done" /\ fret.kind = "Ok" /\ fpath = "par"
    /\ \E i \in FilterRows : InResult(i)
    /\ \E i \in FilterRows : EvalRow(i) = EvOk(NaN)
    /\ \E i \in FilterRows : EvalRow(i).k = "err"

\* C7 as stated: a row with an unknown variable among the variables of the
\* expression is excluded from the result, and never makes the call fail.
C7_UnknownVariableExcludes ==
    /\ (fpc = "done" /\ fret.kind = "Ok") =>
           \A i \in FilterRows :
               (\E v \in vars_of(compiled) : Unknown(v, i)) => ~InResult(i)
    /\ NoErrorFromRows

\* C7: a row on which the evaluation looks up an unknown variable is excluded
\* from the result, and never makes the call fail; a variable in the right
\* operand of || or && that the evaluation of the row skips does not count.
C7_ReadUnknownExcludes ==
    /\ (fpc = "done" /\ fret.kind = "Ok") =>
           \A i \in FilterRows :
               (\E v \in reads_of(compiled, i) : Unknown(v, i)) => ~InResult(i)
    /\ NoErrorFromRows

\* a call that excludes a row for an unknown variable it looked up and keeps
\* a row with an unknown variable it skipped
C7_Witness ==
    /\ fpc = "done" /\ fret.kind = "Ok"
    /\ \E i \in FilterRows :
           (\E v \in reads_of(compiled, i) : Unknown(v, i)) /\ ~InResult(i)
    /\ \E i \in FilterRows :
           (\E v \in vars_of(compiled) : Unknown(v, i)) /\ InResult(i)

\* C8 as stated: a filter call whose columns differ in row count fails with
\* LengthMismatch before any row is evaluated.
C8_RaggedColumnsRejected ==
    (fpc = "done" /\ FilterValidated /\ FilterRaggedColumns) =>
        fret = Err("LengthMismatch") /\ evaluated = {}

\* C9: an expression longer than 1000 fails with ExpressionTooLong before it
\* is parsed, before the columns are extracted and before any row is
\* evaluated; an expression of length exactly 1000 is not rejected as too long.
C9_TooLongRejectedFirst ==
    fcall # NoFilterCall =>
        /\ expr_len(fcall.expr_str) > 1000 =>
               /\ fpc = "done"
               /\ fret = Err("ExpressionTooLong")
               /\ compiled = NoExpr
               /\ storage = <<>>
               /\ evaluated = {}
        /\ expr_len(fcall.expr_str) = 1000 => fret # Err("ExpressionTooLong")

\* an expression of length 1001 that does not parse, with names and columns
\* that differ in number, fails as too long
C9_Witness ==
    /\ expr_len(fcall.expr_str) = 1001
    /\ fcall.expr_str.text = BadExprText
    /\ Len(fcall.names) # Len(fcall.columns)
    /\ fret = Err("ExpressionTooLong")

-----------------------------------------------------------------------------
(* Vocabulary of the return-code property: what the markers of the log say *)

\* the code the digits of a marker stand for, -1 when they are no i32
MarkerCode(seg) == <<1, 22, 2147483647, -1>>[seg.n]

\* the code as an Option<i32>
MarkerRc(seg) == IF MarkerCode(seg) = -1 THEN NoRc ELSE SomeRc(MarkerCode(seg))

\* the positions in the log of the markers of the kinds given
MarkersOf(kinds) == {k \in 1..Len(log_segs) : log_segs[k].kind \in kinds}

LastOf(S) == CHOOSE k \in S : \A j \in S : j <= k

\* C11 as stated: with a primary marker of parsable N in the text the return
\* code is the N of the last primary marker, wherever the bare markers are;
\* otherwise it is the code of the last bare marker, None when there is none.
C11_PrimaryAlwaysWins ==
    scan_ret.done =>
        LET parsable == {k \in MarkersOf({"primary"}) : MarkerCode(log_segs[k]) # -1}
            bare == MarkersOf({"bare", "plain"})
        IN  /\ parsable # {} =>
                   scan_ret.rc = SomeRc(MarkerCode(log_segs[LastOf(MarkersOf({"primary"}))]))
            /\ (parsable = {} /\ bare # {}) => scan_ret.rc = MarkerRc(log_segs[LastOf(bare)])
            /\ (parsable = {} /\ bare = {}) => scan_ret.rc = NoRc

\* C11: when the N of the last primary marker is parsable the return code is
\* that N, wherever the bare markers are; otherwise it is the code of the
\* last match of the secondary pattern, which the r(N) of a primary marker
\* matches as well, and None when there is no match or it is not parsable.
C11_LastPrimaryWins ==
    scan_ret.done =>
        LET primary == MarkersOf({"primary"})
            secondary == MarkersOf({"primary", "bare", "plain"})
        IN  IF primary # {} /\ MarkerCode(log_segs[LastOf(primary)]) # -1
            THEN scan_ret.rc = SomeRc(MarkerCode(log_segs[LastOf(primary)]))
            ELSE IF secondary # {}
            THEN scan_ret.rc = MarkerRc(log_segs[LastOf(secondary)])
            ELSE scan_ret.rc = NoRc

\* a primary marker with a bare marker of another code before and after it
C11_Witness ==
    /\ scan_ret.done
    /\ log_segs = <<Segment("bare", 2), Segment("primary", 1), Segment("bare", 2)>>
    /\ scan_ret.rc = SomeRc(1)

-----------------------------------------------------------------------------
\* C12: for fixed descending and nulls_last the per-column comparator, and
\* the chain of keys built from it, is a total preorder over values and
\* nulls: compare(a, a) is Equal, compare(a, b) is the reverse of
\* compare(b, a), and compare(a, b) # Greater with compare(b, c) # Greater
\* gives compare(a, c) # Greater.
C12_TotalPreorder ==
    ord_in.kind # "none" =>
        /\ ord_out.aa = Equal
        /\ ord_out.ab = reverse(ord_out.ba)
        /\ (ord_out.ab # Greater /\ ord_out.bc # Greater) => ord_out.ac # Greater

\* a null and two values under descending with nulls first: the null before
\* the larger value, the larger before the smaller, the null before the smaller
C12_Witness ==
    /\ ord_in.kind = "numeric"
    /\ ord_in.subject = <<NaN, F(2), F(1)>>
    /\ ord_in.descending /\ ~ord_in.nulls_last
    /\ ord_out = OrdOut(Equal, Less, Greater, Less, Less)

====
